---- MODULE Spec2Model ----
(***************************************************************************)
(* goarith: mixed mode arithmetic of Int32, Int64, Float64 and *BigInt     *)
(* (src/number.go, the listing of lines 555-1158).                         *)
(*                                                                         *)
(* Machine integers of 64 bits and math/big integers do not fit the model  *)
(* checker's integers, so every integer of the program is held as a        *)
(* sign-magnitude numeral: a record [neg, mag] whose magnitude is a        *)
(* little-endian sequence of limbs in 0..Base-1 without high zero limbs.   *)
(* Fixed-width arithmetic is exact arithmetic followed by the two's        *)
(* complement wrap of the width.  A float64 is NaN, an infinity, or a      *)
(* finite m * 2^e with the rounding of IEEE 754 (nearest, ties to even).   *)
(***************************************************************************)
EXTENDS Integers, Sequences, FiniteSets, TLC

\* ------------------------------------------------------------------------
\* Natural numbers as limb sequences (the magnitudes of math/big.Int)
\* ------------------------------------------------------------------------

\* The bits of a limb, and the limb base 2^LimbBits.
LimbBits == 15

Base == 2 ^ LimbBits

Max(i, j) == IF i >= j THEN i ELSE j

Min(i, j) == IF i <= j THEN i ELSE j

\* The limb of weight Base^(i-1), zero beyond the numeral's length.
Dig(a, i) == IF i <= Len(a) THEN a[i] ELSE 0

Zeros(n) == [i \in 1..n |-> 0]

RECURSIVE NatNorm(_)
\* Strip the high zero limbs.
NatNorm(a) ==
    IF a = <<>> THEN <<>>
    ELSE IF a[Len(a)] = 0 THEN NatNorm(SubSeq(a, 1, Len(a) - 1))
    ELSE a

RECURSIVE NatCmpAt(_, _, _)
NatCmpAt(a, b, i) ==
    IF i = 0 THEN 0
    ELSE IF a[i] < b[i] THEN -1
    ELSE IF a[i] > b[i] THEN 1
    ELSE NatCmpAt(a, b, i - 1)

\* -1, 0, +1 as a < b, a = b, a > b (both normalised).
NatCmp(a, b) ==
    IF Len(a) < Len(b) THEN -1
    ELSE IF Len(a) > Len(b) THEN 1
    ELSE NatCmpAt(a, b, Len(a))

RECURSIVE NatAddAt(_, _, _, _)
NatAddAt(a, b, i, c) ==
    IF i > Len(a) /\ i > Len(b)
    THEN (IF c = 0 THEN <<>> ELSE <<c>>)
    ELSE LET s == Dig(a, i) + Dig(b, i) + c
         IN  <<s % Base>> \o NatAddAt(a, b, i + 1, s \div Base)

NatAdd(a, b) == NatAddAt(a, b, 1, 0)

RECURSIVE NatSubAt(_, _, _, _)
NatSubAt(a, b, i, c) ==
    IF i > Len(a) THEN <<>>
    ELSE LET s == a[i] - Dig(b, i) - c
         IN  IF s < 0 THEN <<s + Base>> \o NatSubAt(a, b, i + 1, 1)
             ELSE <<s>> \o NatSubAt(a, b, i + 1, 0)

\* a - b for a >= b.
NatSub(a, b) == NatNorm(NatSubAt(a, b, 1, 0))

RECURSIVE NatMulSmallAt(_, _, _, _)
NatMulSmallAt(a, d, i, c) ==
    IF i > Len(a) THEN (IF c = 0 THEN <<>> ELSE <<c>>)
    ELSE LET s == a[i] * d + c
         IN  <<s % Base>> \o NatMulSmallAt(a, d, i + 1, s \div Base)

\* a * d for one limb d.
NatMulSmall(a, d) == IF d = 0 THEN <<>> ELSE NatMulSmallAt(a, d, 1, 0)

RECURSIVE NatMulAt(_, _, _)
NatMulAt(a, b, i) ==
    IF i > Len(b) THEN <<>>
    ELSE LET rest == NatMulAt(a, b, i + 1)
         IN  NatAdd(NatMulSmall(a, b[i]),
                    IF rest = <<>> THEN <<>> ELSE <<0>> \o rest)

NatMul(a, b) == IF a = <<>> \/ b = <<>> THEN <<>> ELSE NatMulAt(a, b, 1)

RECURSIVE NatDivSmallAt(_, _, _, _)
\* Short division by one limb d, from the high limb i down, c the rest so far.
NatDivSmallAt(a, d, i, c) ==
    IF i = 0 THEN [q |-> <<>>, r |-> c]
    ELSE LET s    == c * Base + a[i]
             rest == NatDivSmallAt(a, d, i - 1, s % d)
         IN  [q |-> rest.q \o <<s \div d>>, r |-> rest.r]

\* [q, r] with a = q*d + r and 0 <= r < d, for one limb d # 0.
NatDivSmall(a, d) ==
    LET Normed(x) == [q |-> NatNorm(x.q), r |-> x.r]
    IN  Normed(NatDivSmallAt(a, d, Len(a), 0))

RECURSIVE NatQuoDigit(_, _, _, _)
\* The largest d with d*b <= r, given lo*b <= r < hi*b.
NatQuoDigit(r, b, lo, hi) ==
    IF hi - lo <= 1 THEN lo
    ELSE LET mid == (lo + hi) \div 2
         IN  IF NatCmp(NatMulSmall(b, mid), r) <= 0
             THEN NatQuoDigit(r, b, mid, hi)
             ELSE NatQuoDigit(r, b, lo, mid)

RECURSIVE NatDivModAt(_, _, _, _, _)
\* Long division, from the high limb i of a down: q the limbs of the quotient
\* and r the rest so far.
NatDivModAt(a, b, i, q, r) ==
    IF i = 0 THEN [q |-> NatNorm(q), r |-> r]
    ELSE LET Digit(r1, d) ==
                 NatDivModAt(a, b, i - 1, <<d>> \o q,
                             NatSub(r1, NatMulSmall(b, d)))
             Step(r1) == Digit(r1, NatQuoDigit(r1, b, 0, Base))
         IN  Step(NatNorm(<<a[i]>> \o r))

\* [q, r] with a = q*b + r and 0 <= r < b, for b # 0.
NatDivMod(a, b) == NatDivModAt(a, b, Len(a), <<>>, <<>>)

RECURSIVE NatOfInt(_)
\* The numeral of a small natural number.
NatOfInt(n) == IF n = 0 THEN <<>> ELSE <<n % Base>> \o NatOfInt(n \div Base)

\* 2^k.
NatPow2(k) == Zeros(k \div LimbBits) \o <<2 ^ (k % LimbBits)>>

\* a * 2^k.
NatShl(a, k) ==
    IF a = <<>> THEN <<>>
    ELSE Zeros(k \div LimbBits) \o NatMulSmall(a, 2 ^ (k % LimbBits))

\* a \div 2^k.
NatShr(a, k) ==
    IF k \div LimbBits >= Len(a) THEN <<>>
    ELSE NatDivSmall(SubSeq(a, 1 + k \div LimbBits, Len(a)),
                     2 ^ (k % LimbBits)).q

\* a % 2^k.
NatLowBits(a, k) == NatSub(a, NatShl(NatShr(a, k), k))

\* The number of bits of a: the least n with a < 2^n.
NatBitLen(a) ==
    IF a = <<>> THEN 0
    ELSE LimbBits * (Len(a) - 1)
         + (CHOOSE n \in 1..LimbBits : 2 ^ (n - 1) <= a[Len(a)] /\ a[Len(a)] < 2 ^ n)

\* The number of low zero bits of a # 0.
NatTrailingZeros(a) ==
    LET Bits(i) ==
            LimbBits * (i - 1)
            + (CHOOSE n \in 0..(LimbBits - 1) :
                  a[i] % (2 ^ n) = 0 /\ a[i] % (2 ^ (n + 1)) # 0)
    IN  Bits(CHOOSE j \in 1..Len(a) : a[j] # 0 /\ \A l \in 1..(j - 1) : a[l] = 0)

NatOdd(a) == a # <<>> /\ a[1] % 2 = 1

RECURSIVE NatOfDecimal(_, _)
\* The numeral written by the first i of the decimal digits ds (most
\* significant first).
NatOfDecimal(ds, i) ==
    IF i = 0 THEN <<>>
    ELSE NatAdd(NatMulSmall(NatOfDecimal(ds, i - 1), 10), NatOfInt(ds[i]))

RECURSIVE NatDigits(_)
\* The decimal digits of a numeral, most significant first; <<>> for zero.
NatDigits(a) ==
    IF a = <<>> THEN <<>>
    ELSE LET Digits(d) == NatDigits(d.q) \o <<d.r>>
         IN  Digits(NatDivSmall(a, 10))

\* ------------------------------------------------------------------------
\* Signed integers: the values of int32, int64 and math/big.Int
\* ------------------------------------------------------------------------

\* The integer of sign neg and magnitude mag; zero has no sign.
MkZ(neg, mag) == [neg |-> neg /\ mag # <<>>, mag |-> mag]

ZZero == MkZ(FALSE, <<>>)

ZOne == MkZ(FALSE, <<1>>)

\* The integer n, for a model-checker integer n.
ZOfInt(n) == IF n < 0 THEN MkZ(TRUE, NatOfInt(0 - n)) ELSE MkZ(FALSE, NatOfInt(n))

\* The integer written in decimal: ZDec(TRUE, <<1, 3>>) is -13.
ZDec(neg, ds) == MkZ(neg, NatOfDecimal(ds, Len(ds)))

\* big.Int.Sign
ZSign(a) == IF a.mag = <<>> THEN 0 ELSE IF a.neg THEN -1 ELSE 1

ZNeg(a) == MkZ(~a.neg, a.mag)

\* big.Int.Cmp
ZCmp(a, b) ==
    IF a.neg /\ ~b.neg THEN -1
    ELSE IF ~a.neg /\ b.neg THEN 1
    ELSE IF a.neg THEN NatCmp(b.mag, a.mag)
    ELSE NatCmp(a.mag, b.mag)

ZLt(a, b) == ZCmp(a, b) < 0

ZLe(a, b) == ZCmp(a, b) <= 0

\* big.Int.Add
ZAdd(a, b) ==
    IF a.neg = b.neg THEN MkZ(a.neg, NatAdd(a.mag, b.mag))
    ELSE IF NatCmp(a.mag, b.mag) >= 0 THEN MkZ(a.neg, NatSub(a.mag, b.mag))
    ELSE MkZ(b.neg, NatSub(b.mag, a.mag))

\* big.Int.Sub
ZSub(a, b) == ZAdd(a, ZNeg(b))

\* big.Int.Mul
ZMul(a, b) == MkZ(a.neg # b.neg, NatMul(a.mag, b.mag))

\* A division that rounds the quotient toward minus infinity (F-division),
\* which the properties of QuoRem must tell from the T-division of Go.
ZQuoRem_floored(a, b) ==
    LET Floored(d) ==
            IF a.neg # b.neg /\ d.r # <<>>
            THEN [q |-> MkZ(TRUE, NatAdd(d.q, <<1>>)),
                  r |-> MkZ(b.neg, NatSub(b.mag, d.r))]
            ELSE [q |-> MkZ(a.neg # b.neg, d.q), r |-> MkZ(a.neg, d.r)]
    IN  Floored(NatDivMod(a.mag, b.mag))

\* big.Int.QuoRem for b # 0: T-division, the quotient truncated toward zero
\* and the remainder with the sign of the dividend.
ZQuoRem(a, b) ==
    LET Signed(d) == [q |-> MkZ(a.neg # b.neg, d.q), r |-> MkZ(a.neg, d.r)]
    IN  Signed(NatDivMod(a.mag, b.mag))

ZPow2(k) == MkZ(FALSE, NatPow2(k))

\* math.MaxInt32, math.MinInt32 and the bounds of int64
MaxInt32 == ZSub(ZPow2(31), ZOne)

MinInt32 == ZNeg(ZPow2(31))

MaxInt64 == ZSub(ZPow2(63), ZOne)

MinInt64 == ZNeg(ZPow2(63))

\* The value a w-bit signed integer holds after an operation whose exact
\* result is z: z modulo 2^w, taken in [-2^(w-1), 2^(w-1)).
Wrap(z, w) ==
    LET Signed(u) ==
            IF NatCmp(u, NatPow2(w - 1)) >= 0
            THEN MkZ(TRUE, NatSub(NatPow2(w), u))
            ELSE MkZ(FALSE, u)
        Unsigned(m) == IF z.neg /\ m # <<>> THEN NatSub(NatPow2(w), m) ELSE m
    IN  Signed(Unsigned(NatLowBits(z.mag, w)))

Wrap64(z) == Wrap(z, 64)

Wrap32(z) == Wrap(z, 32)

\* big.Int.IsInt64
IsInt64(z) == ZLe(MinInt64, z) /\ ZLe(z, MaxInt64)

\* ------------------------------------------------------------------------
\* float64: IEEE 754 binary64, round to nearest, ties to even
\* ------------------------------------------------------------------------

\* The exponent range of binary64: a finite float is m * 2^e with m < 2^53,
\* e >= -1074 and m * 2^e < 2^1024.
MantBits == 53

MinExp == -1074

MaxBits == 1024

NaN == [k |-> "nan"]

Inf(neg) == [k |-> "inf", neg |-> neg]

\* The finite float m * 2^e of sign neg, m made odd (zero is 0 * 2^0).
Fin(neg, m, e) ==
    IF m = <<>> THEN [k |-> "fin", neg |-> neg, m |-> <<>>, e |-> 0]
    ELSE LET Odd(t) == [k |-> "fin", neg |-> neg, m |-> NatShr(m, t), e |-> e + t]
         IN  Odd(NatTrailingZeros(m))

\* m / 2^sh rounded to the nearest integer, ties to even, for sh > 0.
NatRoundShr(m, sh) ==
    LET Up(q, c) == IF c > 0 \/ (c = 0 /\ NatOdd(q)) THEN NatAdd(q, <<1>>) ELSE q
    IN  Up(NatShr(m, sh), NatCmp(NatLowBits(m, sh), NatPow2(sh - 1)))

\* The float64 nearest to the real number m * 2^e of sign neg.
FRound(neg, m, e) ==
    LET Ranged(q, x) ==
            IF NatBitLen(q) + x > MaxBits THEN Inf(neg) ELSE Fin(neg, q, x)
        Shifted(sh) ==
            IF sh <= 0 THEN Ranged(m, e) ELSE Ranged(NatRoundShr(m, sh), e + sh)
    IN  IF m = <<>> THEN Fin(neg, m, e)
        ELSE Shifted(Max(NatBitLen(m) - MantBits, MinExp - e))

IsNaN(x) == x.k = "nan"

IsInf(x) == x.k = "inf"

IsFin(x) == x.k = "fin"

IsZeroF(x) == x.k = "fin" /\ x.m = <<>>

\* float64(i) for an integer i, and big.Rat.Float64 of an integer.
FOfZ(z) == FRound(z.neg, z.mag, 0)

FNeg(x) == IF x.k = "nan" THEN x ELSE [x EXCEPT !.neg = ~x.neg]

\* The integer x * 2^(-e) of a finite float x, for e <= x.e.
FScaled(x, e) == MkZ(x.neg, NatShl(x.m, x.e - e))

\* x + y
FAdd(x, y) ==
    IF IsNaN(x) \/ IsNaN(y) THEN NaN
    ELSE IF IsInf(x) THEN (IF IsInf(y) /\ x.neg # y.neg THEN NaN ELSE x)
    ELSE IF IsInf(y) THEN y
    ELSE LET Sum(s, e) ==
                 IF s.mag = <<>> THEN Fin(x.neg /\ y.neg, <<>>, 0)
                 ELSE FRound(s.neg, s.mag, e)
             Scaled(e) == Sum(ZAdd(FScaled(x, e), FScaled(y, e)), e)
         IN  Scaled(Min(x.e, y.e))

\* x - y
FSub(x, y) == FAdd(x, FNeg(y))

\* x * y
FMul(x, y) ==
    IF IsNaN(x) \/ IsNaN(y) THEN NaN
    ELSE IF IsInf(x) \/ IsInf(y)
    THEN (IF IsZeroF(x) \/ IsZeroF(y) THEN NaN ELSE Inf(x.neg # y.neg))
    ELSE FRound(x.neg # y.neg, NatMul(x.m, y.m), x.e + y.e)

\* x / y: the quotient is taken to 56 bits and more, with one more bit that
\* tells whether the division left a rest, and then rounded.
FDiv(x, y) ==
    IF IsNaN(x) \/ IsNaN(y) THEN NaN
    ELSE IF IsInf(x) THEN (IF IsInf(y) THEN NaN ELSE Inf(x.neg # y.neg))
    ELSE IF IsInf(y) THEN Fin(x.neg # y.neg, <<>>, 0)
    ELSE IF IsZeroF(y) THEN (IF IsZeroF(x) THEN NaN ELSE Inf(x.neg # y.neg))
    ELSE IF IsZeroF(x) THEN Fin(x.neg # y.neg, <<>>, 0)
    ELSE LET Quo(d, sh) ==
                 FRound(x.neg # y.neg,
                        NatAdd(NatShl(d.q, 1), IF d.r = <<>> THEN <<>> ELSE <<1>>),
                        x.e - y.e - sh - 1)
             Shifted(sh) == Quo(NatDivMod(NatShl(x.m, sh), y.m), sh)
         IN  Shifted(Max(0, MantBits + 3 + NatBitLen(y.m) - NatBitLen(x.m)))

\* x < y and x > y (false when either is NaN; -0 equals +0).
FLess(x, y) ==
    IF IsNaN(x) \/ IsNaN(y) THEN FALSE
    ELSE IF IsInf(x) THEN x.neg /\ ~(IsInf(y) /\ y.neg)
    ELSE IF IsInf(y) THEN ~y.neg
    ELSE LET Scaled(e) == ZLt(FScaled(x, e), FScaled(y, e))
         IN  Scaled(Min(x.e, y.e))

\* math.Trunc
Trunc(x) ==
    IF ~IsFin(x) \/ x.e >= 0 THEN x
    ELSE Fin(x.neg, NatShr(x.m, 0 - x.e), 0)

\* math.Mod: the rest of x/y with the sign of x.
Mod(x, y) ==
    IF IsNaN(x) \/ IsNaN(y) \/ IsInf(x) \/ IsZeroF(y) THEN NaN
    ELSE IF IsInf(y) THEN x
    ELSE LET Scaled(e) ==
                 FRound(x.neg,
                        NatDivMod(NatShl(x.m, x.e - e), NatShl(y.m, y.e - e)).r,
                        e)
         IN  Scaled(Min(x.e, y.e))

\* fmt.Sprintf("%.0f", q) for a finite q: the sign and the decimal digits of
\* q rounded to an integer (ties to even); "-0" for a negative zero.
FormatF0(q) ==
    LET Digits(i) == IF i = <<>> THEN <<0>> ELSE NatDigits(i)
    IN  [neg    |-> q.neg,
         digits |-> Digits(IF q.e < 0 THEN NatRoundShr(q.m, 0 - q.e)
                           ELSE NatShl(q.m, q.e))]

\* big.Int.SetString(s, 10) of a text of an optional sign and decimal digits.
SetString(s) == MkZ(s.neg, NatOfDecimal(s.digits, Len(s.digits)))

\* ------------------------------------------------------------------------
\* Numbers (number.go 568-612) and the heap of big.Int objects
\* ------------------------------------------------------------------------

\* The four Number types. A *BigInt is a pointer to a big.Int of the heap.
I32(z) == [t |-> "Int32", v |-> z]

I64(z) == [t |-> "Int64", v |-> z]

F64(f) == [t |-> "Float64", f |-> f]

BigP(p) == [t |-> "BigInt", p |-> p]

\* The nil interface value, a Number of a type of the caller's own, a Go int
\* (the result of Cmp) and the absence of a value.
Nil == [t |-> "nil"]

Other == [t |-> "other"]

GoInt(i) == [t |-> "int", i |-> i]

NoValue == [t |-> "none"]

\* What a call panics with: a runtime error of Go, or a string (the message
\* of a method of this package, or the one of math/big).
NoPanic == [kind |-> "none"]

DivideError ==
    [kind |-> "runtime error", msg |-> [text |-> "integer divide by zero"]]

NilDereference ==
    [kind |-> "runtime error",
     msg |-> [text |-> "invalid memory address or nil pointer dereference"]]

BigDivisionByZero == [kind |-> "string", msg |-> [text |-> "division by zero"]]

\* The outcome of a call: the heap after it, the values returned (v and, for
\* QuoRem, w), or the panic that ended it.
Ret1(h, v) == [h |-> h, v |-> v, w |-> NoValue, panic |-> NoPanic]

Ret2(h, v, w) == [h |-> h, v |-> v, w |-> w, panic |-> NoPanic]

Throw(h, p) == [h |-> h, v |-> NoValue, w |-> NoValue, panic |-> p]

\* The least address not in use.
NewAddr(h) ==
    CHOOSE p \in 1..(Cardinality(DOMAIN h) + 1) :
        p \notin DOMAIN h /\ \A q \in 1..(p - 1) : q \in DOMAIN h

\* big.NewInt(z), and new(big.Int) for z = 0: the heap with the new object
\* and its address.
NewInt(h, z) ==
    LET At(p) == [h |-> (p :> z) @@ h, p |-> p]
    IN  At(NewAddr(h))

\* An assignment to the big.Int at p.
Store(h, p, z) == [h EXCEPT ![p] = z]

\* String methods (621-639)

DigitChars == <<"0", "1", "2", "3", "4", "5", "6", "7", "8", "9">>

\* strconv.FormatInt(a, 10) and big.Int.String
FormatInt(a) ==
    LET Signed(cs) == [chars |-> IF a.neg THEN <<"-">> \o cs ELSE cs]
        Chars(ds) == Signed([i \in 1..Len(ds) |-> DigitChars[ds[i] + 1]])
    IN  Chars(IF a.mag = <<>> THEN <<0>> ELSE NatDigits(a.mag))

\* Float64.String: the shortest decimal text that reads back as the float,
\* with ".0" appended when it has neither "." nor "e". The text is kept as
\* the float it is the text of.
Float64_String(a) == [shortest |-> a]

String(h, a) ==
    CASE a.t = "Int32" -> FormatInt(a.v)
      [] a.t = "Int64" -> FormatInt(a.v)
      [] a.t = "Float64" -> Float64_String(a.f)
      [] a.t = "BigInt" -> FormatInt(h[a.p])
      [] OTHER -> [chars |-> <<"?">>]

\* panic(fmt.Sprintf("%s.Op(%s)", a.String(), b.String())), the last
\* statement of every method: b.String() on the nil interface value is a nil
\* pointer dereference.
Unsupported(h, op, a, b) ==
    IF b = Nil THEN Throw(h, NilDereference)
    ELSE Throw(h, [kind |-> "string",
                   msg |-> [op |-> op, a |-> String(h, a), b |-> String(h, b)]])

\* Utilities (707-817)

\* BigInt.toFloat64
BigInt_toFloat64(h, a) == FOfZ(h[a])

\* Int64.reduce
Int64_reduce(a) ==
    IF ZLe(MinInt32, a) /\ ZLe(a, MaxInt32) THEN I32(Wrap32(a)) ELSE I64(a)

\* BigInt.reduce, of the *BigInt at address a
BigInt_reduce(h, a) ==
    IF IsInt64(h[a]) THEN Int64_reduce(Wrap64(h[a])) ELSE BigP(a)

\* return (*BigInt)(z).reduce(), for the big.Int z at address p
ReturnReduced(h, p) == Ret1(h, BigInt_reduce(h, p))

\* An addInt64 without the overflow test: the sum wraps.
Int64_addInt64_wrapping(h, a, b) == Ret1(h, Int64_reduce(Wrap64(ZAdd(a, b))))

\* Int64.addInt64
Int64_addInt64(h, a, b) ==
    LET Big(z, y) ==
            Ret1(Store(y.h, z.p, ZAdd(y.h[z.p], y.h[y.p])), BigP(z.p))
        Sum(c) ==
            IF (ZSign(a) >= 0 /\ ZSign(b) >= 0 /\ ZSign(c) < 0)
               \/ (ZSign(a) < 0 /\ ZSign(b) < 0 /\ ZSign(c) >= 0)
            THEN Big(NewInt(h, a), NewInt(NewInt(h, a).h, b))
            ELSE Ret1(h, Int64_reduce(c))
    IN  Sum(Wrap64(ZAdd(a, b)))

\* An addBigInt that adds in place: z := (*big.Int)(a); z.Add(z, b).
BigInt_addBigInt_inplace(h, a, b) ==
    ReturnReduced(Store(h, a, ZAdd(h[a], h[b])), a)

\* BigInt.addBigInt, of the *BigInt at a and the *big.Int at b
BigInt_addBigInt(h, a, b) ==
    LET Sum(z) == ReturnReduced(Store(z.h, z.p, ZAdd(z.h[a], z.h[b])), z.p)
    IN  Sum(NewInt(h, ZZero))

\* Int64.subInt64
Int64_subInt64(h, a, b) ==
    LET Big(z, y) ==
            Ret1(Store(y.h, z.p, ZSub(y.h[z.p], y.h[y.p])), BigP(z.p))
        Negated(neg) ==
            IF neg # b THEN Int64_addInt64(h, a, neg)
            ELSE IF ZSign(a) < 0 THEN Ret1(h, Int64_reduce(Wrap64(ZSub(a, b))))
            ELSE Big(NewInt(h, a), NewInt(NewInt(h, a).h, b))
    IN  Negated(Wrap64(ZNeg(b)))

\* BigInt.subBigInt
BigInt_subBigInt(h, a, b) ==
    LET Diff(z) == ReturnReduced(Store(z.h, z.p, ZSub(z.h[a], z.h[b])), z.p)
    IN  Diff(NewInt(h, ZZero))

\* A cmpInt64 by the sign of the difference in int64 arithmetic, which wraps.
Int64_cmpInt64_difference(a, b) == ZSign(Wrap64(ZSub(a, b)))

\* Int64.cmpInt64
Int64_cmpInt64(a, b) == IF ZLt(a, b) THEN -1 ELSE IF ZLt(b, a) THEN 1 ELSE 0

\* Float64.cmpFloat64
Float64_cmpFloat64(a, b) == IF FLess(a, b) THEN -1 ELSE IF FLess(b, a) THEN 1 ELSE 0

\* A mulInt64 in int64 arithmetic: the product wraps.
Int64_mulInt64_wrapping(h, a, b) == Ret1(h, Int64_reduce(Wrap64(ZMul(a, b))))

\* Int64.mulInt64
Int64_mulInt64(h, a, b) ==
    LET Prod(z, y) ==
            ReturnReduced(Store(y.h, z.p, ZMul(y.h[z.p], y.h[y.p])), z.p)
    IN  Prod(NewInt(h, a), NewInt(NewInt(h, a).h, b))

\* BigInt.mulBigInt
BigInt_mulBigInt(h, a, b) ==
    LET Prod(z) == ReturnReduced(Store(z.h, z.p, ZMul(z.h[a], z.h[b])), z.p)
    IN  Prod(NewInt(h, ZZero))

\* A quoRemInt64 that returns zeros for a zero divisor.
Int64_quoRemInt64_unchecked(h, a, b) ==
    LET Reduced(d) == Ret2(h, Int64_reduce(Wrap64(d.q)), Int64_reduce(Wrap64(d.r)))
    IN  IF b = ZZero THEN Ret2(h, I32(ZZero), I32(ZZero))
        ELSE Reduced(ZQuoRem(a, b))

\* Int64.quoRemInt64: a / b and a % b of int64, which panic for b = 0 and
\* wrap for MinInt64 / -1.
Int64_quoRemInt64(h, a, b) ==
    LET Reduced(d) == Ret2(h, Int64_reduce(Wrap64(d.q)), Int64_reduce(Wrap64(d.r)))
    IN  IF b = ZZero THEN Throw(h, DivideError) ELSE Reduced(ZQuoRem(a, b))

\* A quoRemFloat64 that leaves the quotient the float64 it was computed as.
Float64_quoRemFloat64_unparsed(h, a, b) ==
    Ret2(h, F64(Trunc(FDiv(a, b))), F64(Mod(a, b)))

\* Float64.quoRemFloat64
Float64_quoRemFloat64(h, a, b) ==
    LET Reduced(h2, p, r) == Ret2(h2, BigInt_reduce(h2, p), F64(r))
        Parsed(z, q, r) ==
            Reduced(Store(z.h, z.p, SetString(FormatF0(q))), z.p, r)
        QuoAndRem(q, r) ==
            IF ~IsInf(q) /\ ~IsNaN(q) THEN Parsed(NewInt(h, ZZero), q, r)
            ELSE Ret2(h, F64(q), F64(r))
    IN  QuoAndRem(Trunc(FDiv(a, b)), Mod(a, b))

\* BigInt.quoRemBigInt: big.Int.QuoRem panics for a zero divisor.
BigInt_quoRemBigInt(h, a, b) ==
    LET Reduced(h2, q, r) == Ret2(h2, BigInt_reduce(h2, q), BigInt_reduce(h2, r))
        Divided(m, q, r, d) == Reduced(Store(Store(m, q, d.q), r, d.r), q, r)
        With(q, r) ==
            IF r.h[b] = ZZero THEN Throw(r.h, BigDivisionByZero)
            ELSE Divided(r.h, q.p, r.p, ZQuoRem(r.h[a], r.h[b]))
    IN  With(NewInt(h, ZZero), NewInt(NewInt(h, ZZero).h, ZZero))

\* Int methods (673-703). w is bits.UintSize, the width of the int of the
\* build; an int is [t |-> "int", v |-> its value], a bool [t |-> "bool"].

UintSizes == {32, 64}

\* const MaxInt, MinInt (614-617)
MaxInt(w) == ZSub(ZPow2(w - 1), ZOne)

MinInt(w) == ZNeg(ZPow2(w - 1))

\* Int32.Int
Int32_Int(h, a, w) ==
    Ret2(h, [t |-> "int", v |-> Wrap(a, w)], [t |-> "bool", ok |-> TRUE])

\* An Int64.Int that converts without the test of the width: int(a), true.
Int64_Int_unclamped(h, a, w) ==
    Ret2(h, [t |-> "int", v |-> Wrap(a, w)], [t |-> "bool", ok |-> TRUE])

\* Int64.Int
Int64_Int(h, a, w) ==
    IF w >= 64 THEN
        Ret2(h, [t |-> "int", v |-> Wrap(a, w)], [t |-> "bool", ok |-> TRUE])
    ELSE IF ZLe(MinInt(w), a) /\ ZLe(a, MaxInt(w)) THEN
        Ret2(h, [t |-> "int", v |-> Wrap(a, w)], [t |-> "bool", ok |-> TRUE])
    ELSE IF ZSign(a) < 0 THEN
        Ret2(h, [t |-> "int", v |-> MinInt(w)], [t |-> "bool", ok |-> FALSE])
    ELSE
        Ret2(h, [t |-> "int", v |-> MaxInt(w)], [t |-> "bool", ok |-> FALSE])

\* Float64.Int: int(a) is the truncated float where an int can hold it, and
\* depends on the implementation where it cannot (c is what the build gives).
Float64_Int(h, a, w, c) ==
    LET Conv(z) == IF ZLe(MinInt(w), z) /\ ZLe(z, MaxInt(w)) THEN z ELSE c
    IN  Ret2(h, [t |-> "int", v |-> IF IsFin(a) THEN Conv(FScaled(Trunc(a), 0))
                                    ELSE c],
             [t |-> "bool", ok |-> FALSE])

\* BigInt.Int
BigInt_Int(h, a, w) ==
    IF IsInt64(h[a]) THEN Int64_Int(h, Wrap64(h[a]), w)
    ELSE IF ZSign(h[a]) < 0 THEN
        Ret2(h, [t |-> "int", v |-> MinInt(w)], [t |-> "bool", ok |-> FALSE])
    ELSE
        Ret2(h, [t |-> "int", v |-> MaxInt(w)], [t |-> "bool", ok |-> FALSE])

\* Add methods

\* Int32.Add, of the Int32 a
Int32_Add(h, a, b) ==
    CASE b.t = "Int32" -> Ret1(h, Int64_reduce(Wrap64(ZAdd(a, b.v))))
      [] b.t = "Int64" -> Int64_addInt64(h, a, b.v)
      [] b.t = "Float64" -> Ret1(h, F64(FAdd(FOfZ(a), b.f)))
      [] b.t = "BigInt" ->
           LET With(x) ==
                   ReturnReduced(Store(x.h, x.p, ZAdd(x.h[x.p], x.h[b.p])), x.p)
           IN  With(NewInt(h, a))
      [] OTHER -> Unsupported(h, "Add", I32(a), b)

\* Int64.Add, of the Int64 a
Int64_Add(h, a, b) ==
    CASE b.t = "Int32" -> Int64_addInt64(h, a, b.v)
      [] b.t = "Int64" -> Int64_addInt64(h, a, b.v)
      [] b.t = "Float64" -> Ret1(h, F64(FAdd(FOfZ(a), b.f)))
      [] b.t = "BigInt" ->
           LET With(x) ==
                   ReturnReduced(Store(x.h, x.p, ZAdd(x.h[x.p], x.h[b.p])), x.p)
           IN  With(NewInt(h, a))
      [] OTHER -> Unsupported(h, "Add", I64(a), b)

\* Float64.Add, of the Float64 a
Float64_Add(h, a, b) ==
    CASE b.t = "Int32" -> Ret1(h, F64(FAdd(a, FOfZ(b.v))))
      [] b.t = "Int64" -> Ret1(h, F64(FAdd(a, FOfZ(b.v))))
      [] b.t = "Float64" -> Ret1(h, F64(FAdd(a, b.f)))
      [] b.t = "BigInt" -> Ret1(h, F64(FAdd(a, BigInt_toFloat64(h, b.p))))
      [] OTHER -> Unsupported(h, "Add", F64(a), b)

\* BigInt.Add, of the *BigInt at address a
BigInt_Add(h, a, b) ==
    CASE b.t = "Int32" ->
           LET y == NewInt(h, b.v)
           IN  BigInt_addBigInt(y.h, a, y.p)
      [] b.t = "Int64" ->
           LET y == NewInt(h, b.v)
           IN  BigInt_addBigInt(y.h, a, y.p)
      [] b.t = "Float64" -> Ret1(h, F64(FAdd(BigInt_toFloat64(h, a), b.f)))
      [] b.t = "BigInt" -> BigInt_addBigInt(h, a, b.p)
      [] OTHER -> Unsupported(h, "Add", BigP(a), b)

\* Sub methods

\* Int32.Sub, of the Int32 a
Int32_Sub(h, a, b) ==
    CASE b.t = "Int32" -> Ret1(h, Int64_reduce(Wrap64(ZSub(a, b.v))))
      [] b.t = "Int64" -> Int64_subInt64(h, a, b.v)
      [] b.t = "Float64" -> Ret1(h, F64(FSub(FOfZ(a), b.f)))
      [] b.t = "BigInt" ->
           LET With(x) ==
                   ReturnReduced(Store(x.h, x.p, ZSub(x.h[x.p], x.h[b.p])), x.p)
           IN  With(NewInt(h, a))
      [] OTHER -> Unsupported(h, "Sub", I32(a), b)

\* Int64.Sub, of the Int64 a
Int64_Sub(h, a, b) ==
    CASE b.t = "Int32" -> Int64_subInt64(h, a, b.v)
      [] b.t = "Int64" -> Int64_subInt64(h, a, b.v)
      [] b.t = "Float64" -> Ret1(h, F64(FSub(FOfZ(a), b.f)))
      [] b.t = "BigInt" ->
           LET With(x) ==
                   ReturnReduced(Store(x.h, x.p, ZSub(x.h[x.p], x.h[b.p])), x.p)
           IN  With(NewInt(h, a))
      [] OTHER -> Unsupported(h, "Sub", I64(a), b)

\* Float64.Sub, of the Float64 a
Float64_Sub(h, a, b) ==
    CASE b.t = "Int32" -> Ret1(h, F64(FSub(a, FOfZ(b.v))))
      [] b.t = "Int64" -> Ret1(h, F64(FSub(a, FOfZ(b.v))))
      [] b.t = "Float64" -> Ret1(h, F64(FSub(a, b.f)))
      [] b.t = "BigInt" -> Ret1(h, F64(FSub(a, BigInt_toFloat64(h, b.p))))
      [] OTHER -> Unsupported(h, "Sub", F64(a), b)

\* BigInt.Sub, of the *BigInt at address a
BigInt_Sub(h, a, b) ==
    CASE b.t = "Int32" ->
           LET y == NewInt(h, b.v)
           IN  BigInt_subBigInt(y.h, a, y.p)
      [] b.t = "Int64" ->
           LET y == NewInt(h, b.v)
           IN  BigInt_subBigInt(y.h, a, y.p)
      [] b.t = "Float64" -> Ret1(h, F64(FSub(BigInt_toFloat64(h, a), b.f)))
      [] b.t = "BigInt" -> BigInt_subBigInt(h, a, b.p)
      [] OTHER -> Unsupported(h, "Sub", BigP(a), b)

\* Mul methods

\* Int32.Mul, of the Int32 a
Int32_Mul(h, a, b) ==
    CASE b.t = "Int32" -> Ret1(h, Int64_reduce(Wrap64(ZMul(a, b.v))))
      [] b.t = "Int64" -> Int64_mulInt64(h, a, b.v)
      [] b.t = "Float64" -> Ret1(h, F64(FMul(FOfZ(a), b.f)))
      [] b.t = "BigInt" ->
           LET With(x) ==
                   ReturnReduced(Store(x.h, x.p, ZMul(x.h[x.p], x.h[b.p])), x.p)
           IN  With(NewInt(h, a))
      [] OTHER -> Unsupported(h, "Mul", I32(a), b)

\* Int64.Mul, of the Int64 a
Int64_Mul(h, a, b) ==
    CASE b.t = "Int32" -> Int64_mulInt64(h, a, b.v)
      [] b.t = "Int64" -> Int64_mulInt64(h, a, b.v)
      [] b.t = "Float64" -> Ret1(h, F64(FMul(FOfZ(a), b.f)))
      [] b.t = "BigInt" ->
           LET With(x) ==
                   ReturnReduced(Store(x.h, x.p, ZMul(x.h[x.p], x.h[b.p])), x.p)
           IN  With(NewInt(h, a))
      [] OTHER -> Unsupported(h, "Mul", I64(a), b)

\* Float64.Mul, of the Float64 a
Float64_Mul(h, a, b) ==
    CASE b.t = "Int32" -> Ret1(h, F64(FMul(a, FOfZ(b.v))))
      [] b.t = "Int64" -> Ret1(h, F64(FMul(a, FOfZ(b.v))))
      [] b.t = "Float64" -> Ret1(h, F64(FMul(a, b.f)))
      [] b.t = "BigInt" -> Ret1(h, F64(FMul(a, BigInt_toFloat64(h, b.p))))
      [] OTHER -> Unsupported(h, "Mul", F64(a), b)

\* BigInt.Mul, of the *BigInt at address a
BigInt_Mul(h, a, b) ==
    CASE b.t = "Int32" ->
           LET y == NewInt(h, b.v)
           IN  BigInt_mulBigInt(y.h, a, y.p)
      [] b.t = "Int64" ->
           LET y == NewInt(h, b.v)
           IN  BigInt_mulBigInt(y.h, a, y.p)
      [] b.t = "Float64" -> Ret1(h, F64(FAdd(BigInt_toFloat64(h, a), b.f)))
      [] b.t = "BigInt" -> BigInt_mulBigInt(h, a, b.p)
      [] OTHER -> Unsupported(h, "Mul", BigP(a), b)

\* Cmp methods

\* Int32.Cmp
Int32_Cmp(h, a, b) ==
    CASE b.t = "Int32" ->
           Ret1(h, GoInt(IF ZLt(a, b.v) THEN -1 ELSE IF ZLt(b.v, a) THEN 1 ELSE 0))
      [] b.t = "Int64" -> Ret1(h, GoInt(Int64_cmpInt64(a, b.v)))
      [] b.t = "Float64" -> Ret1(h, GoInt(Float64_cmpFloat64(FOfZ(a), b.f)))
      [] b.t = "BigInt" ->
           LET x == NewInt(h, a)
           IN  Ret1(x.h, GoInt(ZCmp(x.h[x.p], x.h[b.p])))
      [] OTHER -> Unsupported(h, "Cmp", I32(a), b)

\* Int64.Cmp
Int64_Cmp(h, a, b) ==
    CASE b.t = "Int32" -> Ret1(h, GoInt(Int64_cmpInt64(a, b.v)))
      [] b.t = "Int64" -> Ret1(h, GoInt(Int64_cmpInt64(a, b.v)))
      [] b.t = "Float64" -> Ret1(h, GoInt(Float64_cmpFloat64(FOfZ(a), b.f)))
      [] b.t = "BigInt" ->
           LET x == NewInt(h, a)
           IN  Ret1(x.h, GoInt(ZCmp(x.h[x.p], x.h[b.p])))
      [] OTHER -> Unsupported(h, "Cmp", I64(a), b)

\* Float64.Cmp
Float64_Cmp(h, a, b) ==
    CASE b.t = "Int32" -> Ret1(h, GoInt(Float64_cmpFloat64(a, FOfZ(b.v))))
      [] b.t = "Int64" -> Ret1(h, GoInt(Float64_cmpFloat64(a, FOfZ(b.v))))
      [] b.t = "Float64" -> Ret1(h, GoInt(Float64_cmpFloat64(a, b.f)))
      [] b.t = "BigInt" ->
           Ret1(h, GoInt(Float64_cmpFloat64(a, BigInt_toFloat64(h, b.p))))
      [] OTHER -> Unsupported(h, "Cmp", F64(a), b)

\* BigInt.Cmp
BigInt_Cmp(h, a, b) ==
    CASE b.t = "Int32" ->
           LET y == NewInt(h, b.v)
           IN  Ret1(y.h, GoInt(ZCmp(y.h[a], y.h[y.p])))
      [] b.t = "Int64" ->
           LET y == NewInt(h, b.v)
           IN  Ret1(y.h, GoInt(ZCmp(y.h[a], y.h[y.p])))
      [] b.t = "Float64" ->
           Ret1(h, GoInt(Float64_cmpFloat64(BigInt_toFloat64(h, a), b.f)))
      [] b.t = "BigInt" -> Ret1(h, GoInt(ZCmp(h[a], h[b.p])))
      [] OTHER -> Unsupported(h, "Cmp", BigP(a), b)

\* RQuo methods

\* Float64.RQuo
Float64_RQuo(h, a, b) ==
    CASE b.t = "Int32" -> Ret1(h, F64(FDiv(a, FOfZ(b.v))))
      [] b.t = "Int64" -> Ret1(h, F64(FDiv(a, FOfZ(b.v))))
      [] b.t = "Float64" -> Ret1(h, F64(FDiv(a, b.f)))
      [] b.t = "BigInt" -> Ret1(h, F64(FDiv(a, BigInt_toFloat64(h, b.p))))
      [] OTHER -> Unsupported(h, "RQuo", F64(a), b)

\* Int32.RQuo
Int32_RQuo(h, a, b) == Float64_RQuo(h, FOfZ(a), b)

\* Int64.RQuo
Int64_RQuo(h, a, b) == Float64_RQuo(h, FOfZ(a), b)

\* BigInt.RQuo
BigInt_RQuo(h, a, b) == Float64_RQuo(h, BigInt_toFloat64(h, a), b)

\* QuoRem methods

\* Int32.QuoRem: a / y and a % y of int32, which panic for y = 0 and wrap
\* for MinInt32 / -1.
Int32_QuoRem(h, a, b) ==
    CASE b.t = "Int32" ->
           IF b.v = ZZero THEN Throw(h, DivideError)
           ELSE LET Wrapped(d) == Ret2(h, I32(Wrap32(d.q)), I32(Wrap32(d.r)))
                IN  Wrapped(ZQuoRem(a, b.v))
      [] b.t = "Int64" -> Int64_quoRemInt64(h, a, b.v)
      [] b.t = "Float64" -> Float64_quoRemFloat64(h, FOfZ(a), b.f)
      [] b.t = "BigInt" ->
           LET x == NewInt(h, a)
           IN  BigInt_quoRemBigInt(x.h, x.p, b.p)
      [] OTHER -> Unsupported(h, "RQuoRem", I32(a), b)

\* Int64.QuoRem
Int64_QuoRem(h, a, b) ==
    CASE b.t = "Int32" -> Int64_quoRemInt64(h, a, b.v)
      [] b.t = "Int64" -> Int64_quoRemInt64(h, a, b.v)
      [] b.t = "Float64" -> Float64_quoRemFloat64(h, FOfZ(a), b.f)
      [] b.t = "BigInt" ->
           LET x == NewInt(h, a)
           IN  BigInt_quoRemBigInt(x.h, x.p, b.p)
      [] OTHER -> Unsupported(h, "RQuoRem", I64(a), b)

\* Float64.QuoRem
Float64_QuoRem(h, a, b) ==
    CASE b.t = "Int32" -> Float64_quoRemFloat64(h, a, FOfZ(b.v))
      [] b.t = "Int64" -> Float64_quoRemFloat64(h, a, FOfZ(b.v))
      [] b.t = "Float64" -> Float64_quoRemFloat64(h, a, b.f)
      [] b.t = "BigInt" -> Float64_quoRemFloat64(h, a, BigInt_toFloat64(h, b.p))
      [] OTHER -> Unsupported(h, "RQuoRem", F64(a), b)

\* BigInt.QuoRem
BigInt_QuoRem(h, a, b) ==
    CASE b.t = "Int32" ->
           LET y == NewInt(h, b.v)
           IN  BigInt_quoRemBigInt(y.h, a, y.p)
      [] b.t = "Int64" ->
           LET y == NewInt(h, b.v)
           IN  BigInt_quoRemBigInt(y.h, a, y.p)
      [] b.t = "Float64" ->
           Float64_quoRemFloat64(h, BigInt_toFloat64(h, a), b.f)
      [] b.t = "BigInt" -> BigInt_quoRemBigInt(h, a, b.p)
      [] OTHER -> Unsupported(h, "RQuoRem", BigP(a), b)

\* An AsNumber that does not reduce an int64 or an int.
AsNumber_unreduced(h, x) ==
    CASE x.t \in {"Int32", "Int64", "Float64", "BigInt"} -> x
      [] x.t = "int32" -> I32(x.v)
      [] x.t = "int64" -> I64(x.v)
      [] x.t = "int" -> I64(x.v)
      [] x.t = "float32" -> F64(x.f)
      [] x.t = "float64" -> F64(x.f)
      [] x.t = "*big.Int" -> BigInt_reduce(h, x.p)
      [] OTHER -> Nil

\* AsNumber (645-669), of a value of any type: the four Number types, the
\* native int32, int64, int, float32, float64 and *big.Int, or another type.
AsNumber(h, x) ==
    CASE x.t \in {"Int32", "Int64", "Float64", "BigInt"} -> x
      [] x.t = "int32" -> I32(x.v)
      [] x.t = "int64" -> Int64_reduce(x.v)
      [] x.t = "int" -> Int64_reduce(x.v)
      [] x.t = "float32" -> F64(x.f)
      [] x.t = "float64" -> F64(x.f)
      [] x.t = "*big.Int" -> BigInt_reduce(h, x.p)
      [] OTHER -> Nil

\* The method op of the Number x applied to y: the dynamic dispatch on the
\* type of x. A method call on the nil interface value panics.
Add(h, x, y) ==
    CASE x.t = "Int32" -> Int32_Add(h, x.v, y)
      [] x.t = "Int64" -> Int64_Add(h, x.v, y)
      [] x.t = "Float64" -> Float64_Add(h, x.f, y)
      [] x.t = "BigInt" -> BigInt_Add(h, x.p, y)
      [] OTHER -> Throw(h, NilDereference)

Sub(h, x, y) ==
    CASE x.t = "Int32" -> Int32_Sub(h, x.v, y)
      [] x.t = "Int64" -> Int64_Sub(h, x.v, y)
      [] x.t = "Float64" -> Float64_Sub(h, x.f, y)
      [] x.t = "BigInt" -> BigInt_Sub(h, x.p, y)
      [] OTHER -> Throw(h, NilDereference)

Mul(h, x, y) ==
    CASE x.t = "Int32" -> Int32_Mul(h, x.v, y)
      [] x.t = "Int64" -> Int64_Mul(h, x.v, y)
      [] x.t = "Float64" -> Float64_Mul(h, x.f, y)
      [] x.t = "BigInt" -> BigInt_Mul(h, x.p, y)
      [] OTHER -> Throw(h, NilDereference)

Cmp(h, x, y) ==
    CASE x.t = "Int32" -> Int32_Cmp(h, x.v, y)
      [] x.t = "Int64" -> Int64_Cmp(h, x.v, y)
      [] x.t = "Float64" -> Float64_Cmp(h, x.f, y)
      [] x.t = "BigInt" -> BigInt_Cmp(h, x.p, y)
      [] OTHER -> Throw(h, NilDereference)

RQuo(h, x, y) ==
    CASE x.t = "Int32" -> Int32_RQuo(h, x.v, y)
      [] x.t = "Int64" -> Int64_RQuo(h, x.v, y)
      [] x.t = "Float64" -> Float64_RQuo(h, x.f, y)
      [] x.t = "BigInt" -> BigInt_RQuo(h, x.p, y)
      [] OTHER -> Throw(h, NilDereference)

QuoRem(h, x, y) ==
    CASE x.t = "Int32" -> Int32_QuoRem(h, x.v, y)
      [] x.t = "Int64" -> Int64_QuoRem(h, x.v, y)
      [] x.t = "Float64" -> Float64_QuoRem(h, x.f, y)
      [] x.t = "BigInt" -> BigInt_QuoRem(h, x.p, y)
      [] OTHER -> Throw(h, NilDereference)

\* x.Int() in a build of int width w. Int is the set of integers here, so the
\* method of the interface is named Number_Int.
Number_Int(h, x, w, c) ==
    CASE x.t = "Int32" -> Int32_Int(h, x.v, w)
      [] x.t = "Int64" -> Int64_Int(h, x.v, w)
      [] x.t = "Float64" -> Float64_Int(h, x.f, w, c)
      [] x.t = "BigInt" -> BigInt_Int(h, x.p, w)
      [] OTHER -> Throw(h, NilDereference)

\* ------------------------------------------------------------------------
\* The operands the callers draw from
\* ------------------------------------------------------------------------

\* How far around the edges of int32 and int64 the integer operands reach.
Radius == 1

\* The small integers of the examples, and the integers at most Radius from
\* the edges 2^31, -2^31, 2^63 and -2^63 of the fixed widths.
SmallValues == {ZOfInt(i) : i \in {-13, -4, -1, 0, 1, 4, 13}}

Near(edge) ==
    {ZSub(edge, ZOfInt(d + 1)) : d \in 0..(Radius - 1)}
        \cup {ZAdd(edge, ZOfInt(d)) : d \in 0..(Radius - 1)}

IntValues ==
    SmallValues \cup Near(ZPow2(31)) \cup Near(MinInt32)
        \cup Near(ZPow2(63)) \cup Near(MinInt64)

FitsInt32(z) == ZLe(MinInt32, z) /\ ZLe(z, MaxInt32)

\* The float with the decimal mantissa ds and the binary exponent e.
FDec(neg, ds, e) == Fin(neg, NatOfDecimal(ds, Len(ds)), e)

\* 0, -0, 1, 4, -4, 13, -13, 0.5, 13.4, -13.4, 2^53 + 2, the infinities, NaN.
FloatValues ==
    {Fin(FALSE, <<>>, 0), Fin(TRUE, <<>>, 0), FDec(FALSE, <<1>>, 0),
     FDec(FALSE, <<4>>, 0), FDec(TRUE, <<4>>, 0), FDec(FALSE, <<1, 3>>, 0),
     FDec(TRUE, <<1, 3>>, 0), FDec(FALSE, <<1>>, -1),
     FDec(FALSE, <<7, 5, 4, 3, 5, 2, 9, 3, 7, 5, 8, 4, 5, 5, 8, 1>>, -49),
     FDec(TRUE, <<7, 5, 4, 3, 5, 2, 9, 3, 7, 5, 8, 4, 5, 5, 8, 1>>, -49),
     FDec(FALSE, <<9, 0, 0, 7, 1, 9, 9, 2, 5, 4, 7, 4, 0, 9, 9, 4>>, 0),
     Inf(FALSE), Inf(TRUE), NaN}

\* The floats of float32 among them (13.4 is no float32).
Float32Values == {f \in FloatValues : f.k # "fin" \/ NatBitLen(f.m) <= 24}

\* A value as the caller writes it. A big.Int is written with its value, and
\* built on the heap when the caller passes it.
BigLit(t, z) == [t |-> t, z |-> z]

\* The Numbers a caller can write: Int32(i), Int64(i), Float64(f),
\* (*BigInt)(p) for every value of the underlying type, canonical or not.
NumberLits ==
    {I32(z) : z \in {v \in IntValues : FitsInt32(v)}}
        \cup {I64(z) : z \in {v \in IntValues : IsInt64(v)}}
        \cup {BigLit("BigInt", z) : z \in IntValues}
        \cup {F64(f) : f \in FloatValues}

\* The native values AsNumber accepts, and one it does not.
NativeLits ==
    {[t |-> "int32", v |-> z] : z \in {v \in IntValues : FitsInt32(v)}}
        \cup {[t |-> "int64", v |-> z] : z \in {v \in IntValues : IsInt64(v)}}
        \cup {[t |-> "int", v |-> z] : z \in {v \in IntValues : IsInt64(v)}}
        \cup {[t |-> "float32", f |-> f] : f \in Float32Values}
        \cup {[t |-> "float64", f |-> f] : f \in FloatValues}
        \cup {BigLit("*big.Int", z) : z \in IntValues}
        \cup {[t |-> "string"]}

\* The second operands of a call: a Number the caller writes, the nil
\* interface value, a Number of another type, or the receiver itself.
Self == [t |-> "self"]

ArgLits == NumberLits \cup {Nil, Other, Self}

\* ------------------------------------------------------------------------
\* The callers
\* ------------------------------------------------------------------------

VARIABLES
    heap,   \* the big.Int objects: address -> integer
    a,      \* the caller's Number a, the receiver of its calls
    b,      \* the caller's Number b
    res,    \* the last call: its operands and what it returned
    n,      \* the calls made
    i,      \* the loop variable of the caller
    pc      \* where the caller is

vars == <<heap, a, b, res, n, i, pc>>

NumberTypes == {"Int32", "Int64", "Float64", "BigInt"}

IntegerTypes == {"Int32", "Int64", "BigInt"}

IsNumber(x) == x.t \in NumberTypes

IsInteger(x) == x.t \in IntegerTypes

\* The integer an integer Number, or a *big.Int, holds.
IntVal(h, x) == IF x.t \in {"BigInt", "*big.Int"} THEN h[x.p] ELSE x.v

\* The value of a Number: [z |-> integer] or [f |-> float].
Value(h, x) ==
    CASE x.t \in {"Int32", "Int64", "int32", "int64", "int"} -> [z |-> x.v]
      [] x.t \in {"BigInt", "*big.Int"} -> [z |-> h[x.p]]
      [] x.t \in {"Float64", "float32", "float64"} -> [f |-> x.f]
      [] OTHER -> [none |-> TRUE]

\* The value as written by the caller: a big.Int is built on the heap.
Build(h, lit, self) ==
    IF lit = Self THEN [h |-> h, x |-> self]
    ELSE IF lit.t = "BigInt" THEN
        LET m == NewInt(h, lit.z) IN [h |-> m.h, x |-> BigP(m.p)]
    ELSE IF lit.t = "*big.Int" THEN
        LET m == NewInt(h, lit.z) IN [h |-> m.h, x |-> [t |-> "*big.Int", p |-> m.p]]
    ELSE [h |-> h, x |-> lit]

Pointers(x) == IF x.t \in {"BigInt", "*big.Int"} THEN {x.p} ELSE {}

\* The heap without the objects nothing refers to any more.
Collect(h, roots) == [p \in (DOMAIN h) \cap roots |-> h[p]]

NoCall ==
    [op |-> "none", x |-> NoValue, y |-> NoValue, xv |-> [none |-> TRUE],
     yv |-> [none |-> TRUE], v |-> NoValue, w |-> NoValue, panic |-> NoPanic]

\* What the caller has of the call x.op(y) once it has returned or panicked
\* with out: the operands, their values before the call, and the results.
\* The objects nothing refers to any more are collected.
Returned(op, h, x, y, out) ==
    /\ res' = [op |-> op, x |-> x, y |-> y,
               xv |-> Value(h, x), yv |-> Value(h, y),
               v |-> out.v, w |-> out.w, panic |-> out.panic]
    /\ heap' = Collect(out.h, Pointers(x) \cup Pointers(y)
                                \cup Pointers(out.v) \cup Pointers(out.w))
    /\ n' = n + 1

\* a = Int32(i), Int64(i), Float64(f) or (*BigInt)(p): a Go conversion.
Convert(lit) ==
    LET m == Build(heap, lit, a)
    IN  /\ res' = [NoCall EXCEPT !.op = "convert", !.y = m.x,
                                 !.yv = Value(m.h, m.x), !.v = m.x]
        /\ a' = m.x
        /\ heap' = Collect(m.h, Pointers(m.x))
        /\ UNCHANGED <<b, n>>

\* The result of AsNumber(x) stored in a.
Converted(h, x, r) ==
    /\ res' = [NoCall EXCEPT !.op = "AsNumber", !.y = x,
                             !.yv = Value(h, x), !.v = r]
    /\ a' = r
    /\ heap' = Collect(h, Pointers(x) \cup Pointers(r))
    /\ UNCHANGED <<b, n>>

\* a = AsNumber(x)
CallAsNumber(lit) ==
    LET m == Build(heap, lit, a)
    IN  Converted(m.h, m.x, AsNumber(m.h, m.x))

\* The caller has no Number yet.
Init ==
    /\ heap = <<>>
    /\ a = Nil
    /\ b = Nil
    /\ res = NoCall
    /\ n = 0
    /\ i = 0
    /\ pc = "new"

\* One call on operands of every kind: the caller gets a Number, by a
\* conversion or from AsNumber, and calls one method with one argument.
DoConvert ==
    /\ pc = "new"
    /\ \E lit \in NumberLits : Convert(lit)
    /\ i' = i
    /\ pc' = "ready"

DoAsNumber ==
    /\ pc = "new"
    /\ \E lit \in NumberLits \cup NativeLits : CallAsNumber(lit)
    /\ i' = i
    /\ pc' = "ready"

DoAdd ==
    /\ pc = "ready"
    /\ \E lit \in ArgLits :
        LET m == Build(heap, lit, a)
        IN  Returned("Add", m.h, a, m.x, Add(m.h, a, m.x)) /\ b' = m.x
    /\ UNCHANGED <<a, i>>
    /\ pc' = "done"

DoSub ==
    /\ pc = "ready"
    /\ \E lit \in ArgLits :
        LET m == Build(heap, lit, a)
        IN  Returned("Sub", m.h, a, m.x, Sub(m.h, a, m.x)) /\ b' = m.x
    /\ UNCHANGED <<a, i>>
    /\ pc' = "done"

DoMul ==
    /\ pc = "ready"
    /\ \E lit \in ArgLits :
        LET m == Build(heap, lit, a)
        IN  Returned("Mul", m.h, a, m.x, Mul(m.h, a, m.x)) /\ b' = m.x
    /\ UNCHANGED <<a, i>>
    /\ pc' = "done"

DoCmp ==
    /\ pc = "ready"
    /\ \E lit \in ArgLits :
        LET m == Build(heap, lit, a)
        IN  Returned("Cmp", m.h, a, m.x, Cmp(m.h, a, m.x)) /\ b' = m.x
    /\ UNCHANGED <<a, i>>
    /\ pc' = "done"

DoRQuo ==
    /\ pc = "ready"
    /\ \E lit \in ArgLits :
        LET m == Build(heap, lit, a)
        IN  Returned("RQuo", m.h, a, m.x, RQuo(m.h, a, m.x)) /\ b' = m.x
    /\ UNCHANGED <<a, i>>
    /\ pc' = "done"

DoQuoRem ==
    /\ pc = "ready"
    /\ \E lit \in ArgLits :
        LET m == Build(heap, lit, a)
        IN  Returned("QuoRem", m.h, a, m.x, QuoRem(m.h, a, m.x)) /\ b' = m.x
    /\ UNCHANGED <<a, i>>
    /\ pc' = "done"

\* a.Int(), in a build of either width of int.
DoInt ==
    /\ pc = "ready"
    /\ \E w \in UintSizes : \E c \in {MinInt(w), ZZero, MaxInt(w)} :
          Returned("Int", heap, a, [t |-> "bits.UintSize", i |-> w],
                   Number_Int(heap, a, w, c))
    /\ UNCHANGED <<a, b, i>>
    /\ pc' = "done"

\* a.String()
DoString ==
    /\ pc = "ready"
    /\ Returned("String", heap, a, NoValue,
                IF IsNumber(a) THEN Ret1(heap, [t |-> "string", s |-> String(heap, a)])
                ELSE Throw(heap, NilDereference))
    /\ UNCHANGED <<a, b, i>>
    /\ pc' = "done"

\* The caller of AsNumber(x), x a *big.Int, assigns to the big.Int in place
\* afterwards (x.SetInt64, x.Add(x, y), ...), holding the Number it got in a.
ChangeBigInt ==
    /\ pc = "ready"
    /\ res.op = "AsNumber" /\ res.y.t = "*big.Int"
    /\ \E z \in IntValues : heap' = Store(heap, res.y.p, z)
    /\ res' = [NoCall EXCEPT !.op = "set", !.x = a, !.xv = Value(heap, a),
                             !.y = res.y, !.yv = res.yv]
    /\ UNCHANGED <<a, b, n, i>>
    /\ pc' = "changed"

\* ExampleBigInt_fibonacci (README.md 92-114):
\*   var a Number = Int32(0); var b Number = Int32(1)
\*   for i := 0; i <= 100; i++ { a = a.Add(b); a, b = b, a }
MaxFib == 100

StartFibonacci ==
    /\ pc = "new"
    /\ a' = I32(ZZero)
    /\ b' = I32(ZOne)
    /\ i' = 0
    /\ pc' = "fibonacci"
    /\ UNCHANGED <<heap, res, n>>

FibonacciStep ==
    /\ pc = "fibonacci"
    /\ i <= MaxFib
    /\ Returned("Add", heap, a, b, Add(heap, a, b))
    /\ a' = b
    /\ b' = res'.v
    /\ i' = i + 1
    /\ pc' = "fibonacci"

\* ExampleBigInt_factorial (README.md 116-129), and the example of the README
\* (56-81), which starts from Int32(1) and multiplies by Int32s:
\*   a := AsNumber(1)
\*   for i := Int64(2); i <= 40; i++ { a = a.Mul(i) }
MaxFact == 40

StartFactorial ==
    /\ pc = "new"
    /\ \/ CallAsNumber([t |-> "int", v |-> ZOne]) /\ pc' = "factorial"
       \/ Convert(I32(ZOne)) /\ pc' = "factorial32"
    /\ i' = 2

FactorialStep ==
    /\ pc \in {"factorial", "factorial32"}
    /\ i <= MaxFact
    /\ IF pc = "factorial"
       THEN Returned("Mul", heap, a, I64(ZOfInt(i)), Mul(heap, a, I64(ZOfInt(i))))
       ELSE Returned("Mul", heap, a, I32(ZOfInt(i)), Mul(heap, a, I32(ZOfInt(i))))
    /\ a' = res'.v
    /\ i' = i + 1
    /\ UNCHANGED <<b, pc>>

Next ==
    \/ DoConvert
    \/ DoAsNumber
    \/ DoAdd
    \/ DoSub
    \/ DoMul
    \/ DoCmp
    \/ DoRQuo
    \/ DoQuoRem
    \/ DoInt
    \/ DoString
    \/ ChangeBigInt
    \/ StartFibonacci
    \/ FibonacciStep
    \/ StartFactorial
    \/ FactorialStep

Spec == Init /\ [][Next]_vars

\* ------------------------------------------------------------------------
\* Properties
\* ------------------------------------------------------------------------

\* The narrowest of the integer types that holds z.
CanonicalType(z) ==
    IF FitsInt32(z) THEN "Int32" ELSE IF IsInt64(z) THEN "Int64" ELSE "BigInt"

\* An integer Number is in canonical form when its type is the narrowest one
\* for its value; every other value counts as canonical.
Canonical(h, x) == IsInteger(x) => x.t = CanonicalType(IntVal(h, x))

Ops == {"Add", "Sub", "Mul", "Cmp", "RQuo", "QuoRem"}

\* The last call was x.op(y) on two integer Numbers.
IntegerCall(op) == res.op = op /\ IsInteger(res.x) /\ IsInteger(res.y)

\* Fibonacci numbers by doubling: <<F(k), F(k+1)>>.
RECURSIVE FibPair(_)
FibPair(k) ==
    IF k = 0 THEN <<ZZero, ZOne>>
    ELSE LET Doubled(c, d) == IF k % 2 = 0 THEN <<c, d>> ELSE <<d, ZAdd(c, d)>>
             Double(f, g) ==
                 Doubled(ZMul(f, ZSub(ZAdd(g, g), f)), ZAdd(ZMul(f, f), ZMul(g, g)))
             Pair(p) == Double(p[1], p[2])
         IN  Pair(FibPair(k \div 2))

\* lo * (lo + 1) * ... * hi
RECURSIVE Product(_, _)
Product(lo, hi) ==
    IF lo > hi THEN ZOne
    ELSE IF lo = hi THEN ZOfInt(lo)
    ELSE ZMul(Product(lo, (lo + hi) \div 2), Product((lo + hi) \div 2 + 1, hi))

\* C1: every integer result of Add, Sub, Mul or QuoRem on integer Numbers in
\* canonical form is in canonical form: an Int32 iff its value is in
\* [-2^31, 2^31-1], an Int64 iff it is in [-2^63, 2^63-1] and outside the int32
\* range, a *BigInt iff it is outside the int64 range.
C1_ResultsCanonical ==
    (/\ res.op \in {"Add", "Sub", "Mul", "QuoRem"}
     /\ IsInteger(res.x) /\ res.x.t = CanonicalType(res.xv.z)
     /\ IsInteger(res.y) /\ res.y.t = CanonicalType(res.yv.z)
     /\ res.panic = NoPanic)
    => Canonical(heap, res.v) /\ Canonical(heap, res.w)

\* C2, as the code has it: AsNumber of an int32, int64, int or *big.Int is
\* the canonical integer Number of the same value; AsNumber of an Int32,
\* Int64, Float64 or *BigInt is its argument, canonical or not; AsNumber of a
\* float32 or float64 is the Float64 of the same value; AsNumber of a value of
\* any other type is nil.
C2_AsNumberCanonicalOfNative ==
    res.op = "AsNumber" =>
        CASE res.y.t \in {"int32", "int64", "int", "*big.Int"} ->
               /\ IsInteger(res.v)
               /\ Canonical(heap, res.v)
               /\ Value(heap, res.v) = res.yv
          [] res.y.t \in NumberTypes ->
               res.v = res.y /\ Value(heap, res.v) = res.yv
          [] res.y.t \in {"float32", "float64"} -> res.v = F64(res.y.f)
          [] OTHER -> res.v = Nil

\* C2 as stated: the Number AsNumber returns is in canonical form for every
\* accepted argument type, the four Number types included.
C2_AsNumberCanonical ==
    (res.op = "AsNumber" /\ res.v # Nil) =>
        Canonical(heap, res.v) /\ Value(heap, res.v) = res.yv

\* AsNumber has reduced a *big.Int of a small value to an Int32.
C2_Witness ==
    res.op = "AsNumber" /\ res.y.t = "*big.Int" /\ res.v.t = "Int32"

\* The test of addInt64 for the overflow of x + y in 64 bits: the operands
\* have the same sign and the wrapped sum has the other sign.
Overflows(x, y) ==
    \/ ZSign(x) >= 0 /\ ZSign(y) >= 0 /\ ZSign(Wrap64(ZAdd(x, y))) < 0
    \/ ZSign(x) < 0 /\ ZSign(y) < 0 /\ ZSign(Wrap64(ZAdd(x, y))) >= 0

\* C3: Add of two Int32/Int64 operands returns the exact sum in the narrowest
\* type; the sum is a *BigInt exactly when the overflow test of 64 bits
\* fires, and the reduced 64-bit sum otherwise; MaxInt32 + 1 is Int64(2^31),
\* MaxInt64 + 1 is a *BigInt of 2^63; and the Fibonacci loop holds F(i) and
\* F(i+1) in the narrowest type at every step (F(100) as the example prints).
C3_AddExact ==
    /\ (res.op = "Add" /\ res.x.t \in {"Int32", "Int64"}
                       /\ res.y.t \in {"Int32", "Int64"}) =>
          /\ res.panic = NoPanic
          /\ Value(heap, res.v) = [z |-> ZAdd(res.xv.z, res.yv.z)]
          /\ Canonical(heap, res.v)
          /\ IF Overflows(res.xv.z, res.yv.z)
             THEN res.v.t = "BigInt"
             ELSE res.v = Int64_reduce(Wrap64(ZAdd(res.xv.z, res.yv.z)))
          /\ (res.x = I32(MaxInt32) /\ res.y = I32(ZOne)) => res.v = I64(ZPow2(31))
          /\ (res.x = I64(MaxInt64) /\ res.y = I64(ZOne)) =>
                res.v.t = "BigInt" /\ heap[res.v.p] = ZPow2(63)
    /\ pc = "fibonacci" =>
          /\ IsInteger(a) /\ IsInteger(b)
          /\ <<IntVal(heap, a), IntVal(heap, b)>> = FibPair(i)
          /\ Canonical(heap, a) /\ Canonical(heap, b)
          /\ i = 100 =>
                IntVal(heap, a) = ZDec(FALSE, <<3, 5, 4, 2, 2, 4, 8, 4, 8, 1, 7,
                                                9, 2, 6, 1, 9, 1, 5, 0, 7, 5>>)

\* Int64(MaxInt64).Add(Int64(1)) has overflowed into a *BigInt.
C3_Witness ==
    /\ res.op = "Add" /\ res.x = I64(MaxInt64) /\ res.y = I64(ZOne)
    /\ res.v.t = "BigInt"

\* C4: in the factorial loops the running product after the multiplication
\* by k is k!, held as an Int32 for k <= 12, an Int64 for 13 <= k <= 20 and a
\* *BigInt for k >= 21, and 30! is 265252859812191058636308480000000.
C4_Factorial ==
    pc \in {"factorial", "factorial32"} =>
        /\ IsInteger(a)
        /\ IntVal(heap, a) = Product(1, i - 1)
        /\ a.t = (IF i - 1 <= 12 THEN "Int32"
                  ELSE IF i - 1 <= 20 THEN "Int64" ELSE "BigInt")
        /\ i - 1 = 30 =>
              IntVal(heap, a) = ZDec(FALSE, <<2, 6, 5, 2, 5, 2, 8, 5, 9, 8, 1,
                                              2, 1, 9, 1, 0, 5, 8, 6, 3, 6, 3,
                                              0, 8, 4, 8, 0, 0, 0, 0, 0, 0, 0>>)

\* The loop of ExampleBigInt_factorial has multiplied by 30.
C4_Witness == pc = "factorial" /\ i - 1 = 30 /\ a.t = "BigInt"

\* C5: QuoRem of two integer Numbers with a divisor other than zero returns
\* a quotient q and a remainder r with q*y + r = x.
C5_QuoRemIdentity ==
    (IntegerCall("QuoRem") /\ res.yv.z # ZZero) =>
        /\ res.panic = NoPanic
        /\ IsInteger(res.v) /\ IsInteger(res.w)
        /\ ZAdd(ZMul(IntVal(heap, res.v), res.yv.z), IntVal(heap, res.w)) = res.xv.z

\* C6: the remainder of QuoRem of two integer Numbers, the divisor not zero,
\* is the remainder of the division that truncates toward zero, whatever the
\* types the operands come in: |r| < |y|, and r = 0 or r has the sign of x;
\* the quotient and the remainder are in canonical form; and 13 and 4 give
\* (Int32 3, Int32 1), -13 and 4 (Int32 -3, Int32 -1), 13 and -4
\* (Int32 -3, Int32 1).
C6_QuoRemTruncates ==
    (IntegerCall("QuoRem") /\ res.yv.z # ZZero) =>
        /\ res.panic = NoPanic
        /\ IsInteger(res.v) /\ IsInteger(res.w)
        /\ IntVal(heap, res.w) = ZQuoRem(res.xv.z, res.yv.z).r
        /\ NatCmp(IntVal(heap, res.w).mag, res.yv.z.mag) < 0
        /\ ZSign(IntVal(heap, res.w)) \in {0, ZSign(res.xv.z)}
        /\ Canonical(heap, res.v) /\ Canonical(heap, res.w)
        /\ (res.xv.z = ZOfInt(13) /\ res.yv.z = ZOfInt(4)) =>
              res.v = I32(ZOfInt(3)) /\ res.w = I32(ZOfInt(1))
        /\ (res.xv.z = ZOfInt(-13) /\ res.yv.z = ZOfInt(4)) =>
              res.v = I32(ZOfInt(-3)) /\ res.w = I32(ZOfInt(-1))
        /\ (res.xv.z = ZOfInt(13) /\ res.yv.z = ZOfInt(-4)) =>
              res.v = I32(ZOfInt(-3)) /\ res.w = I32(ZOfInt(1))

\* A *BigInt of -13 divided by an Int64 of 4.
C6_Witness ==
    /\ res.op = "QuoRem" /\ res.x.t = "BigInt" /\ res.y = I64(ZOfInt(4))
    /\ res.xv.z = ZOfInt(-13)
    /\ res.v = I32(ZOfInt(-3)) /\ res.w = I32(ZOfInt(-1))

\* The divisor of the last call is an integer Number of value zero.
ZeroIntegerDivisor == IsInteger(res.y) /\ res.yv.z = ZZero

\* The last call panicked with a division by zero (of the Go runtime or of
\* math/big) and returned nothing.
FailedDivisionByZero ==
    /\ res.panic \in {DivideError, BigDivisionByZero}
    /\ res.v = NoValue /\ res.w = NoValue

\* The last call returned a Float64 quotient that is infinite or NaN.
ReturnedNonFinite ==
    res.panic = NoPanic /\ res.v.t = "Float64" /\ ~IsFin(res.v.f)

C8_Commutative ==
    /\ (res.op = "Add" /\ IsNumber(res.x) /\ IsNumber(res.y)) =>
          Value(heap, res.v) = Value(Add(heap, res.y, res.x).h,
                                     Add(heap, res.y, res.x).v)
    /\ (res.op = "Mul" /\ IsNumber(res.x) /\ IsNumber(res.y)) =>
          Value(heap, res.v) = Value(Mul(heap, res.y, res.x).h,
                                     Mul(heap, res.y, res.x).v)

\* C9: a method called with a second operand that is no Int32, Int64,
\* Float64 or *BigInt, the nil interface value included, panics with the
\* message that names the operation and both operands, and returns nothing.
C9_UnsupportedOperand ==
    (res.op \in Ops /\ IsNumber(res.x) /\ ~IsNumber(res.y)) =>
        /\ res.panic.kind = "string"
        /\ DOMAIN res.panic.msg = {"op", "a", "b"}
        /\ res.panic.msg.b = String(heap, res.y)
        /\ res.v = NoValue /\ res.w = NoValue

\* C10: the quotient QuoRem returns is an Int32, an Int64 or a *BigInt.
C10_QuotientIsInteger ==
    (res.op = "QuoRem" /\ res.panic = NoPanic) => IsInteger(res.v)

\* The float64 an operand of value xv is converted to where a Float64 is the
\* other operand.
FloatOperand(x, xv) == IF x.t = "Float64" THEN xv.f ELSE FOfZ(xv.z)

\* The last call was x.op(y) on two Numbers, a Float64 among them.
FloatCall(op) ==
    /\ res.op = op /\ IsNumber(res.x) /\ IsNumber(res.y)
    /\ "Float64" \in {res.x.t, res.y.t}

\* trunc(x/y) in float64 for the operands of the last call.
TruncatedQuotient ==
    Trunc(FDiv(FloatOperand(res.x, res.xv), FloatOperand(res.y, res.yv)))

\* The integer a finite float without a fraction is.
WholeValue(q) == MkZ(q.neg, NatShl(q.m, q.e))

IntegerLits == {lit \in NumberLits : lit.t # "Float64"}

\* x.Cmp(y) for the operand the caller writes as lit.
CmpWith(x, lit) == Cmp(Build(heap, lit, x).h, x, Build(heap, lit, x).x).v

\* C12: Cmp of two integer Numbers returns -1, 0 or 1 as the value of the
\* receiver is less than, equal to or greater than the value of the
\* argument, whatever the types; y.Cmp(x) is the opposite of x.Cmp(y); and
\* Cmp is transitive: x <= y and y <= z give x <= z.
C12_CmpByValue ==
    IntegerCall("Cmp") =>
        /\ res.panic = NoPanic
        /\ res.v = GoInt(ZSign(ZSub(res.xv.z, res.yv.z)))
        /\ res.v.i \in {-1, 0, 1}
        /\ Cmp(heap, res.y, res.x).v = GoInt(0 - res.v.i)
        /\ (res.xv.z = ZOfInt(4) /\ res.yv.z = ZOfInt(4)) => res.v = GoInt(0)
        /\ \A lit \in IntegerLits :
              (res.v.i <= 0 /\ CmpWith(res.y, lit).i <= 0) =>
                  CmpWith(res.x, lit).i <= 0

\* An Int64 of -2^63 compared with an Int32 of 1 is less.
C12_Witness ==
    /\ res.op = "Cmp" /\ res.x = I64(MinInt64) /\ res.y = I32(ZOne)
    /\ res.v = GoInt(-1)

\* What Int() is to return for an integer of value z in a build whose int
\* has w bits: z and true where -2^(w-1) <= z <= 2^(w-1) - 1, and otherwise
\* the nearer end of that range and false.
ClampedInt(z, w) ==
    IF ZSign(ZAdd(z, ZPow2(w - 1))) >= 0 /\ ZSign(ZSub(ZPow2(w - 1), z)) > 0
    THEN <<z, TRUE>>
    ELSE IF ZSign(z) < 0 THEN <<ZNeg(ZPow2(w - 1)), FALSE>>
    ELSE <<ZSub(ZPow2(w - 1), ZOne), FALSE>>

\* C13: Int() of an Int32 returns its value and true; Int() of an Int64 or
\* of a *BigInt returns its value and true where the value is within
\* [MinInt, MaxInt] of the width w of int, and otherwise MinInt and false for
\* a negative value, MaxInt and false for a positive one; Int() of a Float64
\* returns false; and where it returns true the int is the Number's value.
C13_IntClamps ==
    (res.op = "Int" /\ IsNumber(res.x)) =>
        /\ res.panic = NoPanic
        /\ res.v.t = "int" /\ res.w.t = "bool"
        /\ res.x.t = "Int32" => res.v.v = res.xv.z /\ res.w.ok
        /\ res.x.t \in {"Int64", "BigInt"} =>
              <<res.v.v, res.w.ok>> = ClampedInt(res.xv.z, res.y.i)
        /\ res.x.t = "Float64" => ~res.w.ok
        /\ res.w.ok => res.v.v = res.xv.z

\* Int() of the Int64 2^31 where int has 32 bits has returned MaxInt, false.
C13_Witness ==
    /\ res.op = "Int" /\ res.x = I64(ZPow2(31)) /\ res.y.i = 32
    /\ res.v.v = MaxInt32 /\ ~res.w.ok

\* C14: after a call of Add, Sub, Mul, Cmp, RQuo, QuoRem, Int or String the
\* receiver and the argument hold the values they held before the call, the
\* big.Int of a *BigInt included.
C14_OperandsUnchanged ==
    res.op \in Ops \cup {"Int", "String"} =>
        /\ IsNumber(res.x) => Value(heap, res.x) = res.xv
        /\ IsNumber(res.y) => Value(heap, res.y) = res.yv

\* Two *BigInt have been added into a third.
C14_Witness ==
    /\ res.op = "Add" /\ res.x.t = "BigInt" /\ res.y.t = "BigInt"
    /\ res.v.t = "BigInt" /\ res.xv.z = ZPow2(63) /\ res.x # res.y

\* C15: Sub of two Int32/Int64 operands returns the exact difference in
\* canonical form; for the argument MinInt64 and a negative receiver x it is
\* the reduced 64-bit x + 2^63, for the argument MinInt64 and a receiver
\* x >= 0 a *BigInt of x + 2^63, outside int64; for every other argument y it
\* is what the overflow-checked addition of x and -y returns.
C15_SubExact ==
    (res.op = "Sub" /\ res.x.t \in {"Int32", "Int64"}
                    /\ res.y.t \in {"Int32", "Int64"}) =>
        /\ res.panic = NoPanic
        /\ Value(heap, res.v) = [z |-> ZSub(res.xv.z, res.yv.z)]
        /\ Canonical(heap, res.v)
        /\ (res.yv.z = MinInt64 /\ ZSign(res.xv.z) < 0) =>
              res.v = Int64_reduce(ZAdd(res.xv.z, ZPow2(63)))
        /\ (res.yv.z = MinInt64 /\ ZSign(res.xv.z) >= 0) =>
              /\ res.v.t = "BigInt"
              /\ heap[res.v.p] = ZAdd(res.xv.z, ZPow2(63))
              /\ ~IsInt64(heap[res.v.p])
        /\ res.yv.z # MinInt64 =>
              /\ res.v.t = Int64_addInt64(heap, res.xv.z, ZNeg(res.yv.z)).v.t
              /\ Value(heap, res.v)
                    = Value(Int64_addInt64(heap, res.xv.z, ZNeg(res.yv.z)).h,
                            Int64_addInt64(heap, res.xv.z, ZNeg(res.yv.z)).v)

\* C16: a *BigInt returned by AsNumber or by a method is an object of its
\* own, none of the big.Int of the operands; so once the caller of AsNumber
\* has assigned to its *big.Int in place, the Number it got still has the
\* value it had and is in canonical form.
C16_FreshBacking ==
    /\ (res.op \in Ops \cup {"AsNumber"} /\ res.panic = NoPanic) =>
          \A r \in {res.v, res.w} :
              r.t = "BigInt" => r.p \notin Pointers(res.x) \cup Pointers(res.y)
    /\ pc = "changed" =>
          Value(heap, a) = res.xv /\ Canonical(heap, a)

====
